---- MODULE Spec2Model ----
(***************************************************************************)
(* Lazy Dungeon Master (Obsidian plugin): the two-step prep pipeline       *)
(* (scan -> materialize -> extractor with one retry -> synthesizer ->      *)
(* note patch) and the note patcher, modelled from src/src/main.js and     *)
(* the chat-completion client of src/unnamed/part_000.                     *)
(*                                                                         *)
(* Strings are sequences of symbols.  A symbol is one character ("a",      *)
(* "\n") or one literal of the program that the program only ever handles  *)
(* whole (a marker comment, a code fence, a JSON value).  No operation of *)
(* the program joins two pieces of text without a "\n" between them, so a  *)
(* literal never comes into being from parts.                              *)
(***************************************************************************)
EXTENDS Integers, Sequences, FiniteSets, TLC

\* ------------------------------------------------------------------ bounds
MaxNoteLen == 3      \* symbols of a starting note (note patcher)
MaxMdLen == 1        \* symbols of a markdown argument (note patcher)
MaxCalls == 2        \* successive updateNoteWithPrep calls (note patcher)
MaxFiles == 2        \* files in the active note's folder
MaxPipeNoteLen == 2  \* symbols of the note a command starts on
MaxPipeMdLen == 1    \* symbols of the synthesizer's answer
MaxFenceLen == 3     \* symbols of an arbitrary text given to stripJsonFences
MaxStrips == 2       \* successive stripJsonFences applications
MaxZoneCount == 2    \* the largest zone count typed into the annotation modal
MaxSide == 1         \* width and height of the rendered map image, in pixels; the places clicked
MaxSaves == 2        \* saveLabeledMap calls that get past the guard on one modal
MaxAppends == 1      \* scanFolderAndAppend commands run on the note
MaxPlainLen == 2     \* length of the marker-free notes two invocations share

\* ------------------------------------------------------- string primitives
\* The symbols a note or a generated markdown is made of.
START_SYM == "<!-- LAZY_DM_START -->"
END_SYM == "<!-- LAZY_DM_END -->"
DocSymbols == {START_SYM, END_SYM, "a", "\n"}

RECURSIVE SeqsUpTo(_, _)
SeqsUpTo(S, n) ==
  IF n = 0 THEN {<<>>}
  ELSE LET shorter == SeqsUpTo(S, n - 1)
       IN shorter \cup {Append(s, c) : s \in {t \in shorter : Len(t) = n - 1}, c \in S}

\* String.prototype.trim's white space, as far as the symbols go.
IsWhitespace(c) == c \in {" ", "\n", "\r", "\t"}

RECURSIVE TrimStart(_)
TrimStart(s) ==
  IF s = <<>> THEN s
  ELSE IF IsWhitespace(Head(s)) THEN TrimStart(Tail(s)) ELSE s

RECURSIVE TrimEnd(_)
TrimEnd(s) ==
  IF s = <<>> THEN s
  ELSE IF IsWhitespace(s[Len(s)]) THEN TrimEnd(SubSeq(s, 1, Len(s) - 1)) ELSE s

\* String.prototype.trim
Trim(s) == TrimEnd(TrimStart(s))

\* String.prototype.indexOf: the 0-based index of the first occurrence, or -1.
IndexOf(s, pat) ==
  LET hits == {i \in 0..(Len(s) - Len(pat)) : SubSeq(s, i + 1, i + Len(pat)) = pat}
  IN IF hits = {} THEN -1 ELSE CHOOSE i \in hits : \A j \in hits : i <= j

\* String.prototype.slice(from, to), 0-based and half-open, and slice(from).
Slice(s, from, to) == SubSeq(s, from + 1, to)
SliceFrom(s, from) == SubSeq(s, from + 1, Len(s))

\* ------------------------------------------------------------ note patcher
startMarker == <<START_SYM>>
endMarker == <<END_SYM>>
NL == <<"\n">>

\* Mutant: the markers are never looked for, the block is always appended.
NextContentAlwaysAppends(current, markdown) ==
  Trim(current) \o NL \o NL \o startMarker \o NL \o Trim(markdown) \o NL \o endMarker \o NL

\* Mutant: after is cut behind the end marker (endIndex + endMarker.length).
NextContentDropsEndMarker(current, markdown) ==
  LET startIndex == IndexOf(current, startMarker)
      endIndex   == IndexOf(current, endMarker)
  IN IF startIndex # -1 /\ endIndex # -1 /\ endIndex > startIndex
     THEN Slice(current, 0, startIndex + Len(startMarker))
            \o NL \o NL \o Trim(markdown) \o NL \o NL
            \o SliceFrom(current, endIndex + Len(endMarker))
     ELSE Trim(current) \o NL \o NL \o startMarker \o NL \o Trim(markdown) \o NL
            \o endMarker \o NL

\* Mutant: the block is put in front of the existing text.
NextContentPrepends(current, markdown) ==
  LET startIndex == IndexOf(current, startMarker)
      endIndex   == IndexOf(current, endMarker)
  IN IF startIndex # -1 /\ endIndex # -1 /\ endIndex > startIndex
     THEN Slice(current, 0, startIndex + Len(startMarker))
            \o NL \o NL \o Trim(markdown) \o NL \o NL \o SliceFrom(current, endIndex)
     ELSE startMarker \o NL \o Trim(markdown) \o NL \o endMarker \o NL \o NL
            \o Trim(current) \o NL

\* Mutant: the markdown is written as it came, not trimmed.
NextContentUntrimmedMarkdown(current, markdown) ==
  LET startIndex == IndexOf(current, startMarker)
      endIndex   == IndexOf(current, endMarker)
  IN IF startIndex # -1 /\ endIndex # -1 /\ endIndex > startIndex
     THEN Slice(current, 0, startIndex + Len(startMarker))
            \o NL \o NL \o markdown \o NL \o NL \o SliceFrom(current, endIndex)
     ELSE Trim(current) \o NL \o NL \o startMarker \o NL \o markdown \o NL
            \o endMarker \o NL

\* updateNoteWithPrep, lines 458-468: the text written back for the text read.
NextContent(current, markdown) ==
  LET startIndex == IndexOf(current, startMarker)
      endIndex   == IndexOf(current, endMarker)
  IN IF startIndex # -1 /\ endIndex # -1 /\ endIndex > startIndex
     THEN LET before == Slice(current, 0, startIndex + Len(startMarker))
              after  == SliceFrom(current, endIndex)
          IN before \o NL \o NL \o Trim(markdown) \o NL \o NL \o after
     ELSE Trim(current) \o NL \o NL \o startMarker \o NL \o Trim(markdown) \o NL
            \o endMarker \o NL

\* -------------------------------------------------------------- the vault
MAX_FILE_BYTES == 8 * 1024 * 1024

\* The children a folder may hold.  kind tells a file (TFile) from a folder,
\* base is the basename in symbols, ext the extension as written, bytes what
\* vault.readBinary returns for it, read whether readBinary returns ("ok")
\* or throws ("error").
VaultFiles ==
  { [kind |-> "file", base |-> <<"map">>, ext |-> "png", bytes |-> 500 * 1024, read |-> "ok"],
    [kind |-> "file", base |-> <<"map", "_player">>, ext |-> "png", bytes |-> 500 * 1024,
     read |-> "ok"],
    [kind |-> "file", base |-> <<"huge">>, ext |-> "JPG", bytes |-> MAX_FILE_BYTES + 1,
     read |-> "ok"],
    [kind |-> "file", base |-> <<"sheet">>, ext |-> "pdf", bytes |-> MAX_FILE_BYTES,
     read |-> "ok"],
    [kind |-> "file", base |-> <<"notes">>, ext |-> "md", bytes |-> 1024, read |-> "ok"],
    [kind |-> "file", base |-> <<"locked">>, ext |-> "webp", bytes |-> 1024, read |-> "error"],
    [kind |-> "folder", base |-> <<"old", "_player">>, ext |-> "png", bytes |-> 0,
     read |-> "error"] }

\* item instanceof TFile
isTFile(item) == item.kind = "file"

\* A folder's direct children, in the folder's order, no child twice.
Folders ==
  {f \in SeqsUpTo(VaultFiles, MaxFiles) : \A i, j \in 1..Len(f) : i # j => f[i] # f[j]}

\* String.prototype.toLowerCase on an extension.
ToLowerCase(e) ==
  CASE e = "PNG" -> "png" [] e = "JPG" -> "jpg" [] e = "JPEG" -> "jpeg"
    [] e = "WEBP" -> "webp" [] e = "PDF" -> "pdf" [] OTHER -> e

\* /\.(png|jpe?g|webp)$/i on file.name
imagePattern(file) == ToLowerCase(file.ext) \in {"png", "jpg", "jpeg", "webp"}
\* /_player\.(png|jpe?g|webp)$/i on file.name
playerImagePattern(file) ==
  /\ imagePattern(file)
  /\ file.base # <<>>
  /\ file.base[Len(file.base)] = "_player"
\* /\.pdf$/i on file.name
pdfPattern(file) == ToLowerCase(file.ext) = "pdf"

\* Mutant: the player-view images do not replace the other images.
buildFolderSummaryAllImages(folder) ==
  LET files  == SelectSeq(folder, isTFile)
  IN [maps |-> SelectSeq(files, imagePattern),
      pcs  |-> SelectSeq(files, pdfPattern)]

\* buildFolderSummary, lines 105-127 (a reference keeps the file it names)
buildFolderSummary(folder) ==
  LET files        == SelectSeq(folder, isTFile)
      images       == SelectSeq(files, imagePattern)
      playerImages == SelectSeq(images, playerImagePattern)
  IN [maps |-> IF Len(playerImages) # 0 THEN playerImages ELSE images,
      pcs  |-> SelectSeq(files, pdfPattern)]

NoAssets == [maps |-> <<>>, pcs |-> <<>>]
JS_NULL == "null"

\* Mutant: a file of exactly MAX_FILE_BYTES bytes is too large.
loadFileAsDataUrlRejectsMaximum(file) ==
  LET extension == ToLowerCase(file.ext)
      isImage   == extension \in {"png", "jpg", "jpeg", "webp"}
      isPdf     == extension = "pdf"
  IN IF ~isImage /\ ~isPdf
     THEN [dataUrl |-> <<>>, notice |-> <<"unsupported_file_type">>, read |-> FALSE]
     ELSE IF file.read = "error"
     THEN [dataUrl |-> <<>>, notice |-> <<"failed_to_load_file">>, read |-> TRUE]
     ELSE IF file.bytes >= MAX_FILE_BYTES
     THEN [dataUrl |-> <<>>, notice |-> <<"file_too_large">>, read |-> TRUE]
     ELSE [dataUrl |-> << [mimeType |-> IF isPdf THEN "application/pdf"
                                        ELSE IF extension = "jpg" THEN "image/jpeg"
                                        ELSE "image/" \o extension,
                           base64Of |-> file.base] >>,
           notice |-> <<>>, read |-> TRUE]

\* Mutant: the size of the file is not tested.
loadFileAsDataUrlAnySize(file) ==
  LET extension == ToLowerCase(file.ext)
      isImage   == extension \in {"png", "jpg", "jpeg", "webp"}
      isPdf     == extension = "pdf"
  IN IF ~isImage /\ ~isPdf
     THEN [dataUrl |-> <<>>, notice |-> <<"unsupported_file_type">>, read |-> FALSE]
     ELSE IF file.read = "error"
     THEN [dataUrl |-> <<>>, notice |-> <<"failed_to_load_file">>, read |-> TRUE]
     ELSE [dataUrl |-> << [mimeType |-> IF isPdf THEN "application/pdf"
                                        ELSE IF extension = "jpg" THEN "image/jpeg"
                                        ELSE "image/" \o extension,
                           base64Of |-> file.base] >>,
           notice |-> <<>>, read |-> TRUE]

\* Mutant: a reference that does not materialize ends its loop.
RemainingStopsAtNull(refs, dataUrl) == IF dataUrl = <<>> THEN <<>> ELSE Tail(refs)

\* loadAssetsForFolder, lines 227-233 and 235-241: the references the for-of
\* loop still has to visit after the first of refs gave dataUrl (null or not).
Remaining(refs, dataUrl) == Tail(refs)

\* loadFileAsDataUrl, lines 156-204: <<the data URL>> (its media type; the
\* base64 text stands for the file's bytes) or <<>> for null, the Notice shown,
\* and whether vault.readBinary was called.
loadFileAsDataUrl(file) ==
  LET extension == ToLowerCase(file.ext)
      isImage   == extension \in {"png", "jpg", "jpeg", "webp"}
      isPdf     == extension = "pdf"
  IN IF ~isImage /\ ~isPdf
     THEN [dataUrl |-> <<>>, notice |-> <<"unsupported_file_type">>, read |-> FALSE]
     ELSE IF file.read = "error"
     THEN [dataUrl |-> <<>>, notice |-> <<"failed_to_load_file">>, read |-> TRUE]
     ELSE IF file.bytes > MAX_FILE_BYTES
     THEN [dataUrl |-> <<>>, notice |-> <<"file_too_large">>, read |-> TRUE]
     ELSE [dataUrl |-> << [mimeType |-> IF isPdf THEN "application/pdf"
                                        ELSE IF extension = "jpg" THEN "image/jpeg"
                                        ELSE "image/" \o extension,
                           base64Of |-> file.base] >>,
           notice |-> <<>>, read |-> TRUE]

\* ------------------------------------------------- JSON and fence stripping
\* The symbols of an answer: a fence of three backticks, the language tag, a newline, JSON
\* texts (an object, the number 0) and a word that is no JSON.
FENCE == "<fence>"   \* three backticks
JSON_OBJECT == "{\"maps\":[]}"
JsonTexts == {JSON_OBJECT, "0"}

\* The first alternative of fencePattern, a fence at the start of the text with
\* an optional json tag and the white space after it: the text after the match.
StripLeadingFence(text) ==
  IF text # <<>> /\ Head(text) = FENCE
  THEN LET rest == Tail(text)
       IN TrimStart(IF rest # <<>> /\ Head(rest) = "json" THEN Tail(rest) ELSE rest)
  ELSE text

\* The second alternative of fencePattern: a fence that ends the text.
StripTrailingFence(text) ==
  IF text # <<>> /\ text[Len(text)] = FENCE THEN SubSeq(text, 1, Len(text) - 1) ELSE text

\* stripJsonFences, lines 206-210
stripJsonFences(text) ==
  IF text = <<>> THEN <<>> ELSE Trim(StripTrailingFence(StripLeadingFence(text)))

\* JSON.parse: the value of a text that is one JSON text inside JSON white
\* space, "SyntaxError" for any other text.
JSONParse(text) ==
  IF Len(Trim(text)) = 1 /\ Trim(text)[1] \in JsonTexts THEN Trim(text)[1] ELSE "SyntaxError"

\* parseJsonContent, lines 212-220: the parsed value, or null.
parseJsonContent(content) ==
  IF content = <<>> THEN JS_NULL
  ELSE IF JSONParse(stripJsonFences(content)) = "SyntaxError" THEN JS_NULL
  ELSE JSONParse(stripJsonFences(content))

\* if (parsed): the truthiness of a parsed value in JavaScript.
Truthy(v) == v \notin {JS_NULL, "0", "false", "\"\""}

\* ------------------------------------------------- chat-completion client
\* What requestUrl does with one POST: it throws, or it answers with a status
\* and a body; content is choices[0].message.content of the body (empty if absent),
\* body "bad" a body that is no JSON.
AnswerLeads == {<<>>, <<FENCE>>, <<FENCE, "json", "\n">>, <<FENCE, "\n">>}
AnswerBodies == {<<>>, <<JSON_OBJECT>>, <<"0">>, <<"x">>}
AnswerTrails == {<<>>, <<FENCE>>, <<"\n", FENCE>>, <<"\n", FENCE, "\n">>}
ExtractorAnswers == {l \o b \o t : l \in AnswerLeads, b \in AnswerBodies, t \in AnswerTrails}

HttpResults(Contents) ==
  {[kind |-> "throws", status |-> 0, content |-> <<>>]}
    \cup {[kind |-> "bad_body", status |-> 200, content |-> <<>>]}
    \cup {[kind |-> "response", status |-> st, content |-> <<>>] : st \in {199, 300, 500}}
    \cup {[kind |-> "response", status |-> st, content |-> c] : st \in {200, 299}, c \in Contents}

\* Mutant: the API key is not tested, the request goes out without one.
createChatCompletionWithoutKeyTest(hasKey, http) ==
  IF http.kind = "throws" \/ http.kind = "bad_body"
  THEN [threw |-> TRUE, posts |-> 1, notices |-> <<"request_failed">>, content |-> <<>>]
  ELSE IF http.status < 200 \/ http.status >= 300
  THEN [threw |-> TRUE, posts |-> 1, notices |-> <<"openrouter_error", "request_failed">>,
        content |-> <<>>]
  ELSE [threw |-> FALSE, posts |-> 1, notices |-> <<>>, content |-> http.content]

\* Mutant: the status is not tested, the body of any response is returned.
createChatCompletionAnyStatus(hasKey, http) ==
  IF ~hasKey
  THEN [threw |-> TRUE, posts |-> 0, notices |-> <<"api_key_not_set">>, content |-> <<>>]
  ELSE IF http.kind = "throws" \/ http.kind = "bad_body"
  THEN [threw |-> TRUE, posts |-> 1, notices |-> <<"request_failed">>, content |-> <<>>]
  ELSE [threw |-> FALSE, posts |-> 1, notices |-> <<>>, content |-> http.content]

\* Mutant: a request that fails is answered with empty content instead of an error.
createChatCompletionSwallowsErrors(hasKey, http) ==
  IF ~hasKey
  THEN [threw |-> TRUE, posts |-> 0, notices |-> <<"api_key_not_set">>, content |-> <<>>]
  ELSE IF http.kind = "throws" \/ http.kind = "bad_body"
  THEN [threw |-> FALSE, posts |-> 1, notices |-> <<"request_failed">>, content |-> <<>>]
  ELSE IF http.status < 200 \/ http.status >= 300
  THEN [threw |-> FALSE, posts |-> 1, notices |-> <<"openrouter_error", "request_failed">>,
        content |-> <<>>]
  ELSE [threw |-> FALSE, posts |-> 1, notices |-> <<>>, content |-> http.content]

\* OpenRouterClient.createChatCompletion, part_000 lines 9-47: whether it
\* throws, the POSTs it issued, the Notices it showed, the content of its answer.
createChatCompletion(hasKey, http) ==
  IF ~hasKey
  THEN [threw |-> TRUE, posts |-> 0, notices |-> <<"api_key_not_set">>, content |-> <<>>]
  ELSE IF http.kind = "throws" \/ http.kind = "bad_body"
  THEN [threw |-> TRUE, posts |-> 1, notices |-> <<"request_failed">>, content |-> <<>>]
  ELSE IF http.status < 200 \/ http.status >= 300
  THEN [threw |-> TRUE, posts |-> 1, notices |-> <<"openrouter_error", "request_failed">>,
        content |-> <<>>]
  ELSE [threw |-> FALSE, posts |-> 1, notices |-> <<>>, content |-> http.content]

\* Mutant: the loop runs while attempt <= 3.
ExtractorStepThreeAttempts(n, parsed) ==
  IF Truthy(parsed) THEN "return"
  ELSE IF n + 1 <= 3 THEN "retry"
  ELSE "throw"

\* Mutant: the value is returned whenever it is not undefined, null included.
ExtractorStepReturnsNull(n, parsed) == "return"

\* requestExtractor, lines 417-434: what the loop does with the value parsed in
\* attempt number n.
ExtractorStep(n, parsed) ==
  IF Truthy(parsed) THEN "return"
  ELSE IF n + 1 <= 2 THEN "retry"
  ELSE "throw"

\* Mutant: the arrays are tested, not their lengths (an array is truthy).
NothingToProcessTestsArrays(a) == FALSE

\* generatePrepTwoStep, line 490
NothingToProcess(a) == Len(a.maps) = 0 /\ Len(a.pcs) = 0

\* No createChatCompletion call was made yet.
NoCall == [kind |-> "none", in2xx |-> FALSE, threw |-> FALSE, posts |-> 0]

\* What a createChatCompletion call met (nothing if no request was sent; for a
\* response, whether its status lies in [200,300)) and did.
CallOf(http, r) ==
  [kind   |-> IF r.posts = 0 THEN "not_sent" ELSE http.kind,
   in2xx  |-> r.posts # 0 /\ http.kind # "throws" /\ http.status \in 200..299,
   threw  |-> r.threw,
   posts  |-> r.posts]

\* An asynchronous operation the command awaits.
ReadOf(file) == [op |-> "read_asset", on |-> file.base]
ChatOf(who) == [op |-> "chat_completion", on |-> <<who>>]
NoteOp(what) == [op |-> what, on |-> <<>>]

\* Mutant: every reference is materialized at once (Promise.all over the lists).
AssetReadsIssuedAtOnce(s) ==
  {ReadOf(s.maps[i]) : i \in 1..Len(s.maps)} \cup {ReadOf(s.pcs[i]) : i \in 1..Len(s.pcs)}

\* loadAssetsForFolder, lines 227-241: the read the two for-of loops have
\* issued when the references s are still to be materialized (each iteration
\* awaits loadFileAsDataUrl before the next begins).
AssetReadsIssued(s) ==
  IF s.maps # <<>> THEN {ReadOf(Head(s.maps))}
  ELSE IF s.pcs # <<>> THEN {ReadOf(Head(s.pcs))}
  ELSE {}

\* ------------------------------------------------------------------- state
VARIABLES
  note,          \* the text of the active note in the vault
  pc,            \* where the running command stands
  current,       \* updateNoteWithPrep: the text vault.read returned
  markdown,      \* updateNoteWithPrep: its markdown argument
  noteBefore,    \* history: the note that the last vault.modify replaced
  wellMarked0,   \* history: the note before any call was WellMarked
  wellMarked2,   \* history: the note that the vault.modify before the last replaced was WellMarked
  sameMarkdown,  \* history: the running/last call got the markdown of the call before it
  mdsClean,      \* history: no markdown passed so far contained a marker
  updates,       \* history: the number of completed updateNoteWithPrep calls
  trace,         \* history: the external operations of the running command, in order
  apiKey,        \* settings.openrouterApiKey is set
  summary,       \* loadAssetsForFolder: the references still to materialize
  assets,        \* loadAssetsForFolder: the assets materialized so far
  attempt,       \* requestExtractor: the loop counter
  extracted,     \* generatePrepTwoStep: what requestExtractor returned
  answers,       \* history: what each extractor attempt of the running command got
  notices,       \* the Notices the running command has shown
  outcome,       \* how the last command ended
  noteAtStart,   \* history: the note when the running command started
  lastCall,      \* history: what the last createChatCompletion call met and did
  pending,       \* the asynchronous operations issued and not yet completed
  scannedFolder, \* history: the folder a direct loadAssetsForFolder call was made on
  loads,         \* history: the files loadFileAsDataUrl was called on, with what it returned
  text,          \* stripJsonFences: the text it is first called on
  stripped,      \* what the successive stripJsonFences calls returned
  appended,      \* history: the number of scanFolderAndAppend appends to the note
  mapFile,       \* GmZoneModal: the map being annotated (basename, parent path)
  zoneCount,     \* GmZoneModal: this.zoneCount
  zonePrefix,    \* GmZoneModal: this.zonePrefix
  customIds,     \* GmZoneModal: this.customIds
  points,        \* GmZoneModal: this.points
  modalOpen,     \* GmZoneModal: the modal is open
  saves,         \* GmZoneModal: the saveLabeledMap calls past the guard, each at its await
  zonesFile,     \* the vault: the file at the output path (<<>> if there is none)
  fileWrites,    \* history: the modifyBinary / createBinary calls that completed
  lastGmZonesPath, \* plugin.settings.lastGmZonesPath
  persistedPath, \* the lastGmZonesPath of the settings last written by saveData
  lastEvent,     \* history: the handler or completion that ran last, the number of
                 \* points before it and the Notice it showed
  pc2,           \* where the updateNoteWithPrep of a second invocation stands
  current2,      \* that call's current: the text vault.read returned to it
  markdown2      \* that call's markdown

histVars == <<noteBefore, wellMarked0, wellMarked2, sameMarkdown, mdsClean, updates>>
pipeVars == <<apiKey, summary, assets, attempt, extracted, answers, notices, outcome,
              noteAtStart>>
fenceVars == <<text, stripped>>
zoneVars == <<mapFile, zoneCount, zonePrefix, customIds, points, modalOpen, saves, zonesFile,
              fileWrites, lastGmZonesPath, persistedPath, lastEvent>>
otherVars == <<pc2, current2, markdown2>>
laterVars == <<appended, zoneVars, otherVars>>
prepVars == <<pc, current, markdown, histVars, trace, pipeVars, lastCall, pending,
              scannedFolder, loads, fenceVars>>
vars == <<note, prepVars, laterVars>>

Notes == SeqsUpTo(DocSymbols, MaxNoteLen)
Markdowns == SeqsUpTo(DocSymbols, MaxMdLen)

Contains(s, pat) == IndexOf(s, pat) # -1
HasMarker(s) == Contains(s, startMarker) \/ Contains(s, endMarker)

\* The marker pair the patcher recognises: the first start marker, and the
\* first end marker, which comes after it.
ValidPair(d) ==
  /\ IndexOf(d, startMarker) # -1
  /\ IndexOf(d, endMarker) > IndexOf(d, startMarker)
\* A note the patcher can take: it holds no marker, or its first end marker
\* comes after its first start marker.
WellMarked(d) == ~HasMarker(d) \/ ValidPair(d)

\* ---------------------------------------------- updateNoteWithPrep, by await
\* line 456: const current = await this.app.vault.read(note)
UpdateNoteRead ==
  /\ pc = "patch_read"
  /\ current' = note
  /\ pc' = "patch_modify"
  /\ trace' = Append(trace, "note_read")
  /\ pending' = (pending \ {NoteOp("note_read")}) \cup {NoteOp("note_modify")}
  /\ UNCHANGED <<note, markdown, histVars, pipeVars, lastCall>>
  /\ UNCHANGED <<scannedFolder, loads, fenceVars>>
  /\ UNCHANGED laterVars

\* lines 458-470: compute nextContent; await this.app.vault.modify(note, nextContent)
UpdateNoteModify ==
  /\ pc = "patch_modify"
  /\ note' = NextContent(current, markdown)
  /\ noteBefore' = note
  /\ wellMarked2' = WellMarked(noteBefore)
  /\ updates' = updates + 1
  /\ pc' = "patched"
  /\ trace' = Append(trace, "note_modify")
  /\ pending' = pending \ {NoteOp("note_modify")}
  /\ UNCHANGED <<current, markdown, wellMarked0, sameMarkdown, mdsClean, pipeVars, lastCall>>
  /\ UNCHANGED <<scannedFolder, loads, fenceVars>>
  /\ UNCHANGED laterVars

\* A caller invoking updateNoteWithPrep(note, md) on the note as it stands.
CallUpdateNoteWithPrep ==
  /\ pc \in {"idle", "patched"}
  /\ updates < MaxCalls
  /\ \E md \in Markdowns :
       /\ markdown' = md
       /\ sameMarkdown' = (updates > 0 /\ md = markdown)
       /\ mdsClean' = (mdsClean /\ ~HasMarker(md))
  /\ pc' = "patch_read"
  /\ trace' = <<>>
  /\ pending' = pending \cup {NoteOp("note_read")}
  /\ UNCHANGED <<note, current, noteBefore, wellMarked0, wellMarked2, updates, pipeVars,
                 lastCall>>
  /\ UNCHANGED <<scannedFolder, loads, fenceVars>>
  /\ UNCHANGED laterVars

\* the GmZoneModal constructor, line 553
DefaultZoneCount == 6

\* The maps a modal may be opened on: the basename and the path of the parent.
MapFiles ==
  { [basename |-> <<"map">>, parent |-> <<>>],
    [basename |-> <<"map", "_player">>, parent |-> <<"maps">>] }

\* No annotation modal was opened.
NoModal == mapFile = [basename |-> <<"map">>, parent |-> <<>>] /\ modalOpen = FALSE /\ zonesFile = <<>>

\* The state before any command, on a note out of N, with the text ids in the
\* custom ids field of the annotation modal.
InitWith(N, ids) ==
  /\ note \in N
  /\ wellMarked0 = WellMarked(note)
  /\ pc = "idle"
  /\ current = <<>>
  /\ markdown = <<>>
  /\ noteBefore = <<>>
  /\ wellMarked2 = TRUE
  /\ sameMarkdown = FALSE
  /\ mdsClean = TRUE
  /\ updates = 0
  /\ trace = <<>>
  /\ apiKey \in BOOLEAN
  /\ summary = NoAssets
  /\ assets = NoAssets
  /\ attempt = 0
  /\ extracted = JS_NULL
  /\ answers = <<>>
  /\ notices = <<>>
  /\ outcome = "none"
  /\ noteAtStart = note
  /\ lastCall = NoCall
  /\ pending = {}
  /\ scannedFolder = <<>>
  /\ loads = <<>>
  /\ stripped = <<>>
  /\ appended = 0
  /\ pc2 = "idle"
  /\ current2 = <<>>
  /\ markdown2 = <<>>
  /\ zoneCount = DefaultZoneCount
  /\ zonePrefix = <<"Z">>
  /\ customIds = ids
  /\ points = <<>>
  /\ saves = <<>>
  /\ fileWrites = <<>>
  /\ lastGmZonesPath = <<>>
  /\ persistedPath = <<>>
  /\ lastEvent = [name |-> "none", before |-> 0, notice |-> "none"]

\* The state before any command, on a note out of N.
InitOn(N) == InitWith(N, <<>>)

InitNote == InitOn(Notes) /\ apiKey /\ text = <<>> /\ NoModal

NextNote ==
  \/ CallUpdateNoteWithPrep
  \/ UpdateNoteRead
  \/ UpdateNoteModify

SpecNote == InitNote /\ [][NextNote]_vars

\* --------------------------------------------------- note patcher: claims
IsPrefix(p, s) == Len(p) <= Len(s) /\ SubSeq(s, 1, Len(p)) = p
IsSuffix(p, s) == Len(p) <= Len(s) /\ SubSeq(s, Len(s) - Len(p) + 1, Len(s)) = p
Count(s, pat) ==
  Cardinality({i \in 0..(Len(s) - Len(pat)) : SubSeq(s, i + 1, i + Len(pat)) = pat})

\* The text strictly between the first start marker and the first end marker.
Region(d) == Slice(d, IndexOf(d, startMarker) + Len(startMarker), IndexOf(d, endMarker))
\* The text up to and including the first start marker / from the first end marker on.
UpToStart(d) == Slice(d, 0, IndexOf(d, startMarker) + Len(startMarker))
FromEnd(d) == SliceFrom(d, IndexOf(d, endMarker))
\* Two successive calls with the same markdown have completed.
AppliedTwice == pc = "patched" /\ updates >= 2 /\ sameMarkdown

TwiceOutcome ==
  /\ ValidPair(note)
  /\ Trim(Region(note)) = Trim(markdown)
  /\ Count(note, startMarker) = Count(noteBefore, startMarker)
  /\ Count(note, endMarker) = Count(noteBefore, endMarker)
  /\ ValidPair(noteBefore)
  /\ UpToStart(note) = UpToStart(noteBefore)
  /\ FromEnd(note) = FromEnd(noteBefore)

\* C3 as claimed: for ANY note and ANY markdown, after two applications of
\* updateNoteWithPrep with the same markdown the region between the markers is
\* the trimmed markdown (inside the patcher's newlines), it is there once (the
\* second application added no marker), and the text outside the markers is
\* the same before and after the second application.
C3_AsClaimed == AppliedTwice => TwiceOutcome

\* C3, amended: the same, for a note that holds no marker or whose first end
\* marker comes after its first start marker, and a markdown that contains no
\* end marker.
C3_TwiceSameMarkdown ==
  (AppliedTwice /\ wellMarked2 /\ ~Contains(markdown, endMarker))
    => TwiceOutcome

C3_Witness ==
  /\ AppliedTwice
  /\ wellMarked2
  /\ ~Contains(markdown, endMarker)
  /\ Trim(markdown) # <<>>
  /\ noteBefore # note

\* The block the first run appends: start marker, trimmed markdown, end marker,
\* each on a line of its own.
Block(md) == startMarker \o NL \o Trim(md) \o NL \o endMarker \o NL

\* One call has just completed on a note that held neither marker.
FirstRun == pc = "patched" /\ ~HasMarker(noteBefore)

\* C4 as claimed: on a note without markers, one call leaves a document that
\* ends with start marker, trimmed markdown, end marker, and the original text
\* of the note is a prefix of the new document.
C4_AsClaimed ==
  FirstRun => /\ IsSuffix(Block(markdown), note)
              /\ IsPrefix(noteBefore, note)

\* C4, amended: on a note without markers, one call leaves the original text
\* with its leading and trailing white space trimmed, a blank line, and the
\* block start marker, trimmed markdown, end marker: the trimmed original text
\* is preserved verbatim above the block.
C4_FirstRunAppends ==
  FirstRun => /\ note = Trim(noteBefore) \o NL \o NL \o Block(markdown)
              /\ IsPrefix(Trim(noteBefore), note)
              /\ IsSuffix(Block(markdown), note)

C4_Witness ==
  /\ FirstRun
  /\ Trim(noteBefore) # <<>>
  /\ Trim(noteBefore) # noteBefore
  /\ Trim(markdown) # <<>>

\* Some start marker of d has an end marker after it.
SomePair(d) ==
  \E i, j \in 1..Len(d) : i < j /\ <<d[i]>> = startMarker /\ <<d[j]>> = endMarker

\* new is old with only the text between old's i-th and j-th symbol changed.
OnlyBetween(old, new, i, j) ==
  /\ IsPrefix(SubSeq(old, 1, i), new)
  /\ IsSuffix(SubSeq(old, j, Len(old)), new)
  /\ Len(new) >= i + (Len(old) - j + 1)

\* C5 as claimed: whenever the note holds a start marker with an end marker
\* after it, a call changes only the text strictly between the markers (for
\* some such pair of markers), and both markers are still there.
C5_AsClaimed ==
  (pc = "patched" /\ SomePair(noteBefore))
    => /\ \E i, j \in 1..Len(noteBefore) :
             /\ i < j
             /\ <<noteBefore[i]>> = startMarker
             /\ <<noteBefore[j]>> = endMarker
             /\ OnlyBetween(noteBefore, note, i, j)
       /\ Contains(note, startMarker)
       /\ Contains(note, endMarker)

\* C5, amended: whenever the FIRST end marker of the note comes after its
\* FIRST start marker, a call changes only the text strictly between these
\* two markers: the note up to and including that start marker and from that
\* end marker on are the same before and after, and between them stands the
\* trimmed markdown.
C5_OnlyBetweenMarkers ==
  (pc = "patched" /\ ValidPair(noteBefore))
    => /\ OnlyBetween(noteBefore, note,
                      IndexOf(noteBefore, startMarker) + 1,
                      IndexOf(noteBefore, endMarker) + 1)
       /\ note = UpToStart(noteBefore) \o NL \o NL \o Trim(markdown) \o NL \o NL
                   \o FromEnd(noteBefore)
       /\ Contains(note, startMarker)
       /\ Contains(note, endMarker)

C5_Witness ==
  /\ pc = "patched"
  /\ updates = 1
  /\ ValidPair(noteBefore)
  /\ Trim(markdown) # <<>>
  /\ note # noteBefore

\* C6 as claimed: from any starting note, every call after the first leaves
\* the number of start markers as the call before it left it.
C6_AsClaimed ==
  (pc = "patched" /\ updates >= 2)
    => Count(note, startMarker) = Count(noteBefore, startMarker)

\* C6, amended: the same, from a starting note that holds no marker or whose
\* first end marker comes after its first start marker, and for markdowns that
\* contain no marker.
C6_NoSecondBlock ==
  (pc = "patched" /\ updates >= 2 /\ wellMarked0 /\ mdsClean)
    => /\ Count(note, startMarker) = Count(noteBefore, startMarker)
       /\ Count(note, endMarker) = Count(noteBefore, endMarker)

C6_Witness ==
  /\ pc = "patched"
  /\ updates >= 2
  /\ wellMarked0
  /\ mdsClean
  /\ ~sameMarkdown
  /\ Trim(markdown) # <<>>
  /\ Count(note, startMarker) = 1

\* ------------------------------------------- generatePrepTwoStep, by await
\* The note a command starts on: markers and text (the white space of a note
\* is exercised on updateNoteWithPrep alone, with Notes).
PipeNotes == SeqsUpTo(DocSymbols \ {"\n"}, MaxPipeNoteLen)
PipeMarkdowns == SeqsUpTo(DocSymbols, MaxPipeMdLen)

\* What requestUrl may do with a POST of the extractor / of the synthesizer.
ExtractorHttp == HttpResults(ExtractorAnswers)
SynthesizerHttp == HttpResults(PipeMarkdowns)

\* The command is invoked (one invocation is followed to its end).
Fresh ==
  /\ pc = "idle"
  /\ assets' = NoAssets
  /\ attempt' = 0
  /\ extracted' = JS_NULL
  /\ answers' = <<>>
  /\ noteAtStart' = note
  /\ lastCall' = NoCall
  /\ UNCHANGED <<note, current, markdown, histVars, apiKey>>

\* The catch of generatePrepTwoStep, lines 505-508, after the Notices shown so far.
Caught(shown) ==
  /\ notices' = shown \o <<"prep_generation_failed">>
  /\ outcome' = "failed"
  /\ pc' = "done"

\* lines 474-479: no active file
StartWithoutNote ==
  /\ Fresh
  /\ trace' = <<>>
  /\ summary' = NoAssets
  /\ notices' = <<"open_a_note">>
  /\ outcome' = "no_note"
  /\ pc' = "done"
  /\ UNCHANGED pending
  /\ UNCHANGED <<scannedFolder, loads, fenceVars>>
  /\ UNCHANGED laterVars

\* lines 481-485: the active file has no parent folder
StartWithoutFolder ==
  /\ Fresh
  /\ trace' = <<>>
  /\ summary' = NoAssets
  /\ notices' = <<"no_folder">>
  /\ outcome' = "no_folder"
  /\ pc' = "done"
  /\ UNCHANGED pending
  /\ UNCHANGED <<scannedFolder, loads, fenceVars>>
  /\ UNCHANGED laterVars

\* lines 487-488 and 222-226: loadAssetsForFolder scans the folder
StartPrep ==
  /\ Fresh
  /\ trace' = <<"scan">>
  /\ \E folder \in Folders : summary' = buildFolderSummary(folder)
  /\ pending' = pending \cup AssetReadsIssued(summary')
  /\ notices' = <<>>
  /\ outcome' = "running"
  /\ pc' = "load"
  /\ UNCHANGED <<scannedFolder, loads, fenceVars>>
  /\ UNCHANGED laterVars

\* lines 227-233: the next map reference is materialized
LoadMap ==
  /\ pc = "load"
  /\ summary.maps # <<>>
  /\ LET file == Head(summary.maps)
         r    == loadFileAsDataUrl(file)
     IN /\ summary' = [summary EXCEPT !.maps = Remaining(@, r.dataUrl)]
        /\ assets' = IF r.dataUrl # <<>>
                     THEN [assets EXCEPT !.maps = Append(@, [file |-> file, dataUrl |-> r.dataUrl[1]])]
                     ELSE assets
        /\ notices' = notices \o r.notice
        /\ trace' = IF r.read THEN Append(trace, "read_asset") ELSE trace
        /\ pending' = (pending \ {ReadOf(file)}) \cup AssetReadsIssued(summary')
        /\ loads' = Append(loads, [file |-> file, dataUrl |-> r.dataUrl])
  /\ UNCHANGED <<note, pc, current, markdown, histVars, apiKey, attempt, extracted, answers,
                 outcome, noteAtStart, lastCall>>
  /\ UNCHANGED <<scannedFolder, fenceVars>>
  /\ UNCHANGED laterVars

\* lines 235-241: the next character sheet reference is materialized
LoadPc ==
  /\ pc = "load"
  /\ summary.maps = <<>>
  /\ summary.pcs # <<>>
  /\ LET file == Head(summary.pcs)
         r    == loadFileAsDataUrl(file)
     IN /\ summary' = [summary EXCEPT !.pcs = Remaining(@, r.dataUrl)]
        /\ assets' = IF r.dataUrl # <<>>
                     THEN [assets EXCEPT !.pcs = Append(@, [file |-> file, dataUrl |-> r.dataUrl[1]])]
                     ELSE assets
        /\ notices' = notices \o r.notice
        /\ trace' = IF r.read THEN Append(trace, "read_asset") ELSE trace
        /\ pending' = (pending \ {ReadOf(file)}) \cup AssetReadsIssued(summary')
        /\ loads' = Append(loads, [file |-> file, dataUrl |-> r.dataUrl])
  /\ UNCHANGED <<note, pc, current, markdown, histVars, apiKey, attempt, extracted, answers,
                 outcome, noteAtStart, lastCall>>
  /\ UNCHANGED <<scannedFolder, fenceVars>>
  /\ UNCHANGED laterVars

\* Mutant: loadAssetsForFolder returns only when something was materialized.
LoadedWithAssets ==
  pc = "load" /\ summary.maps = <<>> /\ summary.pcs = <<>> /\ assets # NoAssets

\* loadAssetsForFolder, line 243: both loops are over
Loaded == pc = "load" /\ summary.maps = <<>> /\ summary.pcs = <<>>

\* lines 490-493: nothing materialized
NoAssetsFound ==
  /\ Loaded
  /\ NothingToProcess(assets)
  /\ notices' = Append(notices, "no_maps_or_pdfs")
  /\ outcome' = "no_assets"
  /\ pc' = "done"
  /\ UNCHANGED <<note, current, markdown, histVars, trace, apiKey, summary, assets, attempt,
                 extracted, answers, noteAtStart, lastCall, pending>>
  /\ UNCHANGED <<scannedFolder, loads, fenceVars>>
  /\ UNCHANGED laterVars

\* lines 495-497 and 408-417: the extractor messages are built, the loop starts
BeginExtraction ==
  /\ Loaded
  /\ ~NothingToProcess(assets)
  /\ notices' = Append(notices, "extracting")
  /\ attempt' = 1
  /\ pc' = "extract"
  /\ pending' = pending \cup {ChatOf("extractor")}
  /\ UNCHANGED <<note, current, markdown, histVars, trace, apiKey, summary, assets,
                 extracted, answers, outcome, noteAtStart, lastCall>>
  /\ UNCHANGED <<scannedFolder, loads, fenceVars>>
  /\ UNCHANGED laterVars

\* What one createChatCompletion call adds to the trace.
Called(who, r) == <<who>> \o [i \in 1..r.posts |-> "http_post"]

\* The content ends, white space aside, with a fence, and starts with one.
Fenced(content) ==
  /\ Len(Trim(content)) >= 2
  /\ Head(content) = FENCE
  /\ Trim(content)[Len(Trim(content))] = FENCE

\* What an attempt got: was it fenced, is it JSON after fence stripping, the
\* value parseJsonContent made of it.
Answer(content) ==
  [fenced |-> Fenced(content),
   json   |-> JSONParse(stripJsonFences(content)) # "SyntaxError",
   value  |-> parseJsonContent(content)]

\* line 430: the Notice of a first attempt that did not parse
RetryNotice == IF attempt = 1 THEN <<"retrying_once">> ELSE <<>>

\* lines 418-421: the call of an attempt throws; the catch of line 505 takes it
ExtractorCallThrows ==
  /\ pc = "extract"
  /\ \E http \in ExtractorHttp :
       LET r == createChatCompletion(apiKey, http)
       IN /\ r.threw
          /\ trace' = trace \o Called("extractor_call", r)
          /\ lastCall' = CallOf(http, r)
          /\ Caught(notices \o r.notices)
  /\ pending' = pending \ {ChatOf("extractor")}
  /\ UNCHANGED <<note, current, markdown, histVars, apiKey, summary, assets, attempt,
                 extracted, answers, noteAtStart>>
  /\ UNCHANGED <<scannedFolder, loads, fenceVars>>
  /\ UNCHANGED laterVars

\* lines 423-427 and 499-501: the content parsed, requestExtractor returns it
ExtractorReturns ==
  /\ pc = "extract"
  /\ \E http \in ExtractorHttp :
       LET r == createChatCompletion(apiKey, http)
       IN /\ ~r.threw
          /\ ExtractorStep(attempt, parseJsonContent(r.content)) = "return"
          /\ trace' = trace \o Called("extractor_call", r) \o <<"extractor_returned">>
          /\ answers' = Append(answers, Answer(r.content))
          /\ extracted' = parseJsonContent(r.content)
          /\ notices' = Append(notices, "synthesizing")
          /\ lastCall' = CallOf(http, r)
          /\ pc' = "synth"
  /\ pending' = (pending \ {ChatOf("extractor")}) \cup {ChatOf("synthesizer")}
  /\ UNCHANGED <<note, current, markdown, histVars, apiKey, summary, assets, attempt,
                 outcome, noteAtStart>>
  /\ UNCHANGED <<scannedFolder, loads, fenceVars>>
  /\ UNCHANGED laterVars

\* lines 423-432: the content did not parse, the loop goes on
ExtractorRetries ==
  /\ pc = "extract"
  /\ \E http \in ExtractorHttp :
       LET r == createChatCompletion(apiKey, http)
       IN /\ ~r.threw
          /\ ExtractorStep(attempt, parseJsonContent(r.content)) = "retry"
          /\ trace' = trace \o Called("extractor_call", r)
          /\ answers' = Append(answers, Answer(r.content))
          /\ notices' = notices \o RetryNotice
          /\ lastCall' = CallOf(http, r)
          /\ attempt' = attempt + 1
  /\ pending' = (pending \ {ChatOf("extractor")}) \cup {ChatOf("extractor")}
  /\ UNCHANGED <<note, pc, current, markdown, histVars, apiKey, summary, assets,
                 extracted, outcome, noteAtStart>>
  /\ UNCHANGED <<scannedFolder, loads, fenceVars>>
  /\ UNCHANGED laterVars

\* lines 423-434: the content did not parse, the loop is over, requestExtractor
\* throws; the catch of line 505 takes it
ExtractorGivesUp ==
  /\ pc = "extract"
  /\ \E http \in ExtractorHttp :
       LET r == createChatCompletion(apiKey, http)
       IN /\ ~r.threw
          /\ ExtractorStep(attempt, parseJsonContent(r.content)) = "throw"
          /\ trace' = trace \o Called("extractor_call", r) \o <<"extraction_failed">>
          /\ answers' = Append(answers, Answer(r.content))
          /\ lastCall' = CallOf(http, r)
          /\ Caught(notices \o RetryNotice)
  /\ pending' = pending \ {ChatOf("extractor")}
  /\ UNCHANGED <<note, current, markdown, histVars, apiKey, summary, assets, attempt,
                 extracted, noteAtStart>>
  /\ UNCHANGED <<scannedFolder, loads, fenceVars>>
  /\ UNCHANGED laterVars

\* lines 437-448: the synthesizer call throws; the catch of line 505 takes it
SynthesizerCallThrows ==
  /\ pc = "synth"
  /\ \E http \in SynthesizerHttp :
       LET r == createChatCompletion(apiKey, http)
       IN /\ r.threw
          /\ trace' = trace \o Called("synthesizer_call", r)
          /\ lastCall' = CallOf(http, r)
          /\ Caught(notices \o r.notices)
  /\ pending' = pending \ {ChatOf("synthesizer")}
  /\ UNCHANGED <<note, current, markdown, histVars, apiKey, summary, assets, attempt,
                 extracted, answers, noteAtStart>>
  /\ UNCHANGED <<scannedFolder, loads, fenceVars>>
  /\ UNCHANGED laterVars

\* lines 445-450 and 503: the synthesizer answered, updateNoteWithPrep is called
SynthesizerReturns ==
  /\ pc = "synth"
  /\ \E http \in SynthesizerHttp :
       LET r == createChatCompletion(apiKey, http)
       IN /\ ~r.threw
          /\ trace' = trace \o Called("synthesizer_call", r) \o <<"synthesizer_returned">>
          /\ markdown' = r.content
          /\ sameMarkdown' = (updates > 0 /\ r.content = markdown)
          /\ mdsClean' = (mdsClean /\ ~HasMarker(r.content))
          /\ lastCall' = CallOf(http, r)
  /\ pc' = "patch_read"
  /\ pending' = (pending \ {ChatOf("synthesizer")}) \cup {NoteOp("note_read")}
  /\ UNCHANGED <<note, current, noteBefore, wellMarked0, wellMarked2, updates, pipeVars>>
  /\ UNCHANGED <<scannedFolder, loads, fenceVars>>
  /\ UNCHANGED laterVars

\* line 456 or 470: the vault throws; the catch of line 505 takes it
VaultThrows ==
  /\ pc \in {"patch_read", "patch_modify"}
  /\ trace' = Append(trace, IF pc = "patch_read" THEN "note_read" ELSE "note_modify_failed")
  /\ Caught(notices)
  /\ pending' = pending \ {NoteOp("note_read"), NoteOp("note_modify")}
  /\ UNCHANGED <<note, current, markdown, histVars, apiKey, summary, assets, attempt,
                 extracted, answers, noteAtStart, lastCall>>
  /\ UNCHANGED <<scannedFolder, loads, fenceVars>>
  /\ UNCHANGED laterVars

\* line 504: updateNoteWithPrep returned
PrepInserted ==
  /\ pc = "patched"
  /\ notices' = Append(notices, "prep_inserted")
  /\ outcome' = "inserted"
  /\ pc' = "done"
  /\ UNCHANGED <<note, current, markdown, histVars, trace, apiKey, summary, assets, attempt,
                 extracted, answers, noteAtStart, lastCall, pending>>
  /\ UNCHANGED <<scannedFolder, loads, fenceVars>>
  /\ UNCHANGED laterVars

Init == InitOn(PipeNotes) /\ text = <<>> /\ NoModal

Next ==
  \/ StartWithoutNote
  \/ StartWithoutFolder
  \/ StartPrep
  \/ LoadMap
  \/ LoadPc
  \/ NoAssetsFound
  \/ BeginExtraction
  \/ ExtractorCallThrows
  \/ ExtractorReturns
  \/ ExtractorRetries
  \/ ExtractorGivesUp
  \/ SynthesizerCallThrows
  \/ SynthesizerReturns
  \/ UpdateNoteRead
  \/ UpdateNoteModify
  \/ VaultThrows
  \/ PrepInserted

Spec == Init /\ [][Next]_vars

\* ------------------------------------------------------- pipeline: claims
\* The number of times event e stands in the trace.
Times(e) == Count(trace, <<e>>)
\* The 1-based places of event e in the trace.
Places(e) == {i \in 1..Len(trace) : trace[i] = e}
\* Every answer the extractor got so far was no JSON after fence stripping.
NeverJson == \A i \in 1..Len(answers) : ~answers[i].json
\* requestExtractor is over and every one of its calls got an answer.
ExtractorOver ==
  /\ pc \notin {"idle", "load", "extract"}
  /\ Len(answers) >= 1
  /\ Len(answers) = Times("extractor_call")

\* C1: while every answer to the extractor is content that is no JSON,
\* requestExtractor makes no third call to createChatCompletion, and when it is
\* over it has made exactly 2 calls and has failed with the extraction error.
C1_RetryBound ==
  NeverJson =>
    /\ Times("extractor_call") <= 2
    /\ ExtractorOver => /\ Times("extractor_call") = 2
                        /\ Times("extraction_failed") = 1
                        /\ trace[Len(trace)] = "extraction_failed"
                        /\ outcome = "failed"
                        /\ Times("synthesizer_call") = 0

C1_Witness ==
  /\ NeverJson
  /\ ExtractorOver
  /\ Len(answers) = 2
  /\ answers[2].fenced
  /\ outcome = "failed"

\* C2 as claimed: whenever the content of attempt 1 is JSON after fence
\* stripping, whatever its value, requestExtractor returns the parsed value
\* after exactly one call, without a retry and without the retrying Notice.
C2_AsClaimed ==
  (Len(answers) >= 1 /\ answers[1].json)
    => /\ Len(answers) = 1
       /\ Times("extractor_call") = 1
       /\ Times("extractor_returned") = 1
       /\ extracted = answers[1].value
       /\ ~Contains(notices, <<"retrying_once">>)

\* The stage of the pipeline an external operation belongs to.
Stage(e) ==
  CASE e = "scan" -> 1
    [] e = "read_asset" -> 2
    [] e \in {"extractor_call", "extractor_returned", "extraction_failed"} -> 3
    [] e \in {"synthesizer_call", "synthesizer_returned"} -> 4
    [] e \in {"note_read", "note_modify", "note_modify_failed"} -> 5
    [] OTHER -> 0

\* C7: within one invocation the operations come in the order scan,
\* materialize, extractor calls, synthesizer call, note patch; the synthesizer
\* is called only after an extractor attempt returned parsed JSON; the note is
\* read and modified only after the synthesizer returned, and it changes in no
\* other step than the modify of the patch.
C7_StageOrder ==
  /\ [](/\ \A i, j \in 1..Len(trace) :
             (i < j /\ Stage(trace[i]) # 0 /\ Stage(trace[j]) # 0)
               => Stage(trace[i]) <= Stage(trace[j])
        /\ \A i \in Places("synthesizer_call") :
             /\ \E j \in Places("extractor_returned") : j < i
             /\ answers # <<>>
             /\ answers[Len(answers)].json
             /\ extracted = answers[Len(answers)].value
             /\ extracted # JS_NULL
        /\ \A i \in Places("note_read") \cup Places("note_modify") :
             \E j \in Places("synthesizer_returned") : j < i
        /\ Times("scan") <= 1
        /\ (trace # <<>> => trace[1] = "scan"))
  /\ [][note' # note => /\ pc = "patch_modify"
                        /\ trace[Len(trace)] = "note_read"
                        /\ Times("synthesizer_returned") = 1]_vars

C7_Witness ==
  /\ outcome = "inserted"
  /\ Times("read_asset") >= 2
  /\ Times("extractor_call") = 2
  /\ Times("note_modify") = 1

\* The invocation has patched the note.
Patched == outcome = "inserted" /\ pc = "done"

C9_MarkdownBetweenMarkers ==
  (Patched /\ answers[Len(answers)].fenced /\ answers[Len(answers)].json)
    => \/ Contains(note, startMarker \o NL \o Trim(markdown) \o NL \o endMarker)
       \/ Contains(note, startMarker \o NL \o NL \o Trim(markdown) \o NL \o NL \o endMarker)

C9_Witness ==
  /\ Patched
  /\ answers[Len(answers)].fenced
  /\ answers[Len(answers)].json
  /\ Len(assets.maps) + Len(assets.pcs) >= 1
  /\ Trim(markdown) # <<>>
  /\ Trim(markdown) # markdown \/ HasMarker(noteAtStart)

\* The running or last command got past the scan and materialized nothing.
NothingMaterialized ==
  /\ pc \notin {"idle", "load"}
  /\ outcome \notin {"none", "no_note", "no_folder"}
  /\ assets = NoAssets

\* C10: when materialization yields no map and no party sheet, the pipeline
\* does not start: no chat-completion call is made, no request is issued, and
\* the note is neither read nor modified.
C10_EmptyAssetSet ==
  NothingMaterialized
    => /\ outcome = "no_assets"
       /\ pc = "done"
       /\ Times("extractor_call") = 0
       /\ Times("synthesizer_call") = 0
       /\ Times("http_post") = 0
       /\ Times("note_read") = 0
       /\ Times("note_modify") = 0
       /\ note = noteAtStart

C10_Witness ==
  /\ NothingMaterialized
  /\ Times("read_asset") >= 1
  /\ Len(notices) >= 2

\* C11: a createChatCompletion call made with no API key configured fails (it
\* throws, after the Notice that the key is not set) and no HTTP request is
\* attempted: the command that made the call has failed and its trace holds no POST.
CallMade == Times("extractor_call") + Times("synthesizer_call") >= 1

C11_NoKeyNoRequest ==
  (~apiKey /\ CallMade) =>
    /\ lastCall.threw
    /\ lastCall.posts = 0
    /\ Times("http_post") = 0
    /\ Times("extractor_returned") = 0
    /\ outcome = "failed"
    /\ \E i \in 1..Len(notices) : notices[i] = "api_key_not_set"

C11_Witness == ~apiKey /\ CallMade /\ lastCall.kind = "not_sent" /\ pc = "done"

\* C12: with an API key set every createChatCompletion call issues exactly one
\* HTTP POST; a call whose response has a status outside [200,300) fails; and a
\* call that failed (status, network error) issued its one POST and no other.
C12_OnePostPerCall ==
  apiKey =>
    /\ Times("http_post") = Times("extractor_call") + Times("synthesizer_call")
    /\ CallMade => lastCall.posts = 1
    /\ (CallMade /\ lastCall.kind = "response" /\ ~lastCall.in2xx) =>
         lastCall.threw /\ outcome = "failed"
    /\ (CallMade /\ lastCall.kind = "throws") => lastCall.threw /\ outcome = "failed"
    /\ lastCall.threw =>
         trace[Len(trace)] = "http_post" /\ trace[Len(trace) - 1] # "http_post"

C12_Witness ==
  /\ apiKey
  /\ lastCall.kind = "response"
  /\ ~lastCall.in2xx
  /\ lastCall.threw
  /\ Times("extractor_call") = 2
  /\ Times("http_post") = 2

\* C13: every fatal path of a command (missing API key, response outside 2xx,
\* network failure, extraction failure after the retry, empty asset set) ends
\* in exactly one Notice for that failure, the Notices of the client and of
\* the command handler counted together (progress Notices and the Notices
\* about single assets are not counted).
FailureNotices ==
  {"api_key_not_set", "openrouter_error", "request_failed", "prep_generation_failed",
   "no_maps_or_pdfs"}

FailuresShown == Cardinality({i \in 1..Len(notices) : notices[i] \in FailureNotices})

C13_AsClaimed ==
  (pc = "done" /\ outcome \in {"failed", "no_assets"}) => FailuresShown = 1

\* ------------------------------------------------ stripJsonFences, applied
\* The texts stripJsonFences is tried on: every text of up to MaxFenceLen
\* symbols, and a JSON text in each of the wrappings a model answers with.
FenceSymbols == {FENCE, "json", "\n", "0", "x"}
Gaps == {<<>>, <<"\n">>}

Unfenced(j) == {<<j>>}
Tagged(j) == {<<FENCE, "json">> \o a \o <<j>> \o b \o <<FENCE>> : a \in Gaps, b \in Gaps}
Untagged(j) == {<<FENCE>> \o a \o <<j>> \o b \o <<FENCE>> : a \in Gaps, b \in Gaps}
Surrounded(j) ==
  {pre \o w \o post : w \in Tagged(j) \cup Untagged(j), pre \in Gaps, post \in Gaps}
    \ (Tagged(j) \cup Untagged(j))
Wrappings(j) == Unfenced(j) \cup Tagged(j) \cup Untagged(j) \cup Surrounded(j)

FenceTexts == SeqsUpTo(FenceSymbols, MaxFenceLen) \cup UNION {Wrappings(j) : j \in JsonTexts}

\* stripJsonFences is called, first on the text, then on what it returned.
CallStripJsonFences ==
  /\ Len(stripped) < MaxStrips
  /\ stripped' = Append(stripped, stripJsonFences(IF stripped = <<>> THEN text
                                                   ELSE stripped[Len(stripped)]))
  /\ UNCHANGED <<note, pc, current, markdown, histVars, trace, pipeVars, lastCall, pending,
                 scannedFolder, loads, text>>
  /\ UNCHANGED laterVars

InitFence == InitOn({<<>>}) /\ apiKey /\ text \in FenceTexts /\ NoModal

NextFence == CallStripJsonFences

SpecFence == InitFence /\ [][NextFence]_vars

\* C14: stripJsonFences is idempotent: for any string s,
\* stripJsonFences(stripJsonFences(s)) equals stripJsonFences(s).
C14_AsClaimed == Len(stripped) >= 2 => stripped[2] = stripped[1]

\* C15: for any JSON text j, stripJsonFences returns j for each wrapping of j:
\* no fence, a fence with a language tag and a closing fence, a fence pair
\* without a tag, and a fence pair with white space or newlines before the
\* opening fence or after the closing fence.
C15_AsClaimed ==
  \A j \in JsonTexts :
    (text \in Wrappings(j) /\ Len(stripped) >= 1) => stripped[1] = <<j>>

\* ------------------------------------- the asset loaders, called directly
\* loadAssetsForFolder(folder) is called, lines 222-226: the folder is scanned.
CallLoadAssetsForFolder ==
  /\ pc = "idle"
  /\ \E folder \in Folders :
       /\ scannedFolder' = folder
       /\ summary' = buildFolderSummary(folder)
  /\ assets' = NoAssets
  /\ trace' = <<"scan">>
  /\ pending' = pending \cup AssetReadsIssued(summary')
  /\ pc' = "load"
  /\ UNCHANGED <<note, current, markdown, histVars, apiKey, attempt, extracted, answers,
                 notices, outcome, noteAtStart, lastCall, loads, fenceVars>>
  /\ UNCHANGED laterVars

\* line 243: both loops are over, loadAssetsForFolder returns the assets
LoadAssetsReturns ==
  /\ Loaded
  /\ pc' = "done"
  /\ UNCHANGED <<note, current, markdown, histVars, trace, apiKey, summary, assets, attempt,
                 extracted, answers, notices, outcome, noteAtStart, lastCall, pending,
                 scannedFolder, loads, fenceVars>>
  /\ UNCHANGED laterVars

\* loadFileAsDataUrl(file) is called on a file of the vault, lines 156-204.
CallLoadFileAsDataUrl ==
  /\ pc = "idle"
  /\ \E file \in {f \in VaultFiles : isTFile(f)} :
       LET r == loadFileAsDataUrl(file)
       IN /\ loads' = Append(loads, [file |-> file, dataUrl |-> r.dataUrl])
          /\ notices' = notices \o r.notice
          /\ trace' = IF r.read THEN <<"read_asset">> ELSE <<>>
  /\ pc' = "done"
  /\ UNCHANGED <<note, current, markdown, histVars, apiKey, summary, assets, attempt,
                 extracted, answers, outcome, noteAtStart, lastCall, pending, scannedFolder,
                 fenceVars>>
  /\ UNCHANGED laterVars

InitAssets == InitOn({<<>>}) /\ apiKey /\ text = <<>> /\ NoModal

NextAssets ==
  \/ CallLoadAssetsForFolder
  \/ LoadMap
  \/ LoadPc
  \/ LoadAssetsReturns
  \/ CallLoadFileAsDataUrl

SpecAssets == InitAssets /\ [][NextAssets]_vars

\* The extensions loadFileAsDataUrl supports, whatever their case.
SupportedType(file) ==
  file.ext \in {"png", "PNG", "jpg", "JPG", "jpeg", "JPEG", "webp", "WEBP", "pdf", "PDF"}

\* C16 as claimed: loadFileAsDataUrl rejects a supported-type file of
\* 8*1024*1024 + 1 bytes, accepts one of 8*1024*1024 bytes, and rejects exactly
\* the supported-type files whose byte length is greater than 8 MiB.
C16_AsClaimed ==
  \A i \in 1..Len(loads) :
    SupportedType(loads[i].file) =>
      (loads[i].dataUrl = <<>> <=> loads[i].file.bytes > 8 * 1024 * 1024)

\* C16: loadFileAsDataUrl rejects a supported-type file of 8*1024*1024 + 1
\* bytes and accepts a readable one of exactly 8*1024*1024 bytes; among the
\* supported-type files whose read succeeds it rejects exactly those whose
\* byte length is greater than 8 MiB (a file whose read throws is rejected
\* whatever its size).
C16_SizeGuard ==
  \A i \in 1..Len(loads) :
    LET file == loads[i].file
    IN SupportedType(file) =>
         /\ file.bytes = 8 * 1024 * 1024 + 1 => loads[i].dataUrl = <<>>
         /\ (file.bytes = 8 * 1024 * 1024 /\ file.read = "ok") => loads[i].dataUrl # <<>>
         /\ file.read = "ok" => (loads[i].dataUrl = <<>> <=> file.bytes > 8 * 1024 * 1024)
         /\ file.read = "error" => loads[i].dataUrl = <<>>

C16_Witness ==
  /\ \E i \in 1..Len(loads) :
       loads[i].file.bytes = 8 * 1024 * 1024 + 1 /\ loads[i].dataUrl = <<>>
  /\ \E i \in 1..Len(loads) :
       loads[i].file.bytes = 8 * 1024 * 1024 /\ loads[i].dataUrl # <<>>

\* C17: buildFolderSummary(folder).maps is exactly the player-view images among
\* the direct child files of the folder when there is one, otherwise exactly
\* all the recognized images; pcs is exactly the PDF files; in folder order.
RecognizedImage(c) ==
  c.kind = "file" /\ c.ext \in {"png", "PNG", "jpg", "JPG", "jpeg", "JPEG", "webp", "WEBP"}
PlayerView(c) == RecognizedImage(c) /\ c.base[Len(c.base)] = "_player"
PdfFile(c) == c.kind = "file" /\ c.ext \in {"pdf", "PDF"}

JustScanned == pc = "load" /\ loads = <<>> /\ trace = <<"scan">>

C17_MapSelection ==
  JustScanned =>
    /\ (\E i \in 1..Len(scannedFolder) : PlayerView(scannedFolder[i])) =>
         summary.maps = SelectSeq(scannedFolder, PlayerView)
    /\ (\A i \in 1..Len(scannedFolder) : ~PlayerView(scannedFolder[i])) =>
         summary.maps = SelectSeq(scannedFolder, RecognizedImage)
    /\ summary.pcs = SelectSeq(scannedFolder, PdfFile)

C17_Witness ==
  /\ JustScanned
  /\ Len(summary.maps) = 1
  /\ PlayerView(summary.maps[1])
  /\ \E i \in 1..Len(scannedFolder) :
       RecognizedImage(scannedFolder[i]) /\ ~PlayerView(scannedFolder[i])

\* C18: in loadAssetsForFolder a reference that fails to materialize does not
\* abort the batch: every reference of the scan is attempted, in scan order,
\* and the result holds exactly the references that materialized, in scan order.
References == buildFolderSummary(scannedFolder).maps \o buildFolderSummary(scannedFolder).pcs
Materialized == SelectSeq(loads, LAMBDA e : e.dataUrl # <<>>)
BatchOver == Loaded /\ Len(trace) >= 1 /\ trace[1] = "scan"

C18_BatchGoesOn ==
  BatchOver =>
    /\ Len(loads) = Len(References)
    /\ \A i \in 1..Len(loads) : loads[i].file = References[i]
    /\ Len(assets.maps) + Len(assets.pcs) = Len(Materialized)
    /\ \A i \in 1..Len(Materialized) :
         LET asset == (assets.maps \o assets.pcs)[i]
         IN asset.file = Materialized[i].file /\ <<asset.dataUrl>> = Materialized[i].dataUrl
    /\ \A i \in 1..Len(assets.maps) : RecognizedImage(assets.maps[i].file)
    /\ \A i \in 1..Len(assets.pcs) : PdfFile(assets.pcs[i].file)

C18_Witness ==
  /\ BatchOver
  /\ Len(loads) = 2
  /\ loads[1].dataUrl = <<>>
  /\ loads[2].dataUrl # <<>>

\* C19: every materialized asset that reaches the prompt builders has a
\* dataUrl, and a dataUrl exists only for a file whose byte length was at most
\* the 8 MiB maximum and whose extension is one of png, jpg, jpeg, webp, pdf.
WithinLimits(file) == file.bytes <= 8 * 1024 * 1024 /\ SupportedType(file)

PromptsBuilt == pc \in {"extract", "synth", "patch_read", "patch_modify", "patched"}

C19_DataUrlOnlyWithinLimits ==
  /\ \A i \in 1..Len(loads) : loads[i].dataUrl # <<>> => WithinLimits(loads[i].file)
  /\ PromptsBuilt =>
       \A i \in 1..Len(assets.maps \o assets.pcs) :
         LET asset == (assets.maps \o assets.pcs)[i]
         IN /\ WithinLimits(asset.file)
            /\ asset.dataUrl.base64Of = asset.file.base
            /\ asset.dataUrl.mimeType \in {"image/png", "image/jpeg", "image/webp",
                                            "application/pdf"}
            /\ \E k \in 1..Len(loads) :
                 loads[k].file = asset.file /\ loads[k].dataUrl = <<asset.dataUrl>>

C19_Witness ==
  /\ pc = "extract"
  /\ Len(assets.pcs) = 1
  /\ assets.pcs[1].file.bytes = 8 * 1024 * 1024
  /\ \E i \in 1..Len(loads) : loads[i].dataUrl = <<>> /\ ~WithinLimits(loads[i].file)

\* C20: within one invocation of the command at most one asynchronous
\* operation (asset read, chat-completion request, note read or write) is
\* outstanding at any time; the asset reads of a batch are issued one after
\* another, each only after the one before it completed.
C20_OneOutstanding ==
  /\ Cardinality(pending) <= 1
  /\ \A o \in pending :
       o.op = "read_asset" =>
         /\ pc = "load"
         /\ Len(trace) = 1 + Len(loads)
         /\ o = ReadOf(Head(summary.maps \o summary.pcs))

C20_Witness ==
  /\ pc = "load"
  /\ Len(loads) = 1
  /\ Cardinality(pending) = 1
  /\ \E o \in pending : o.op = "read_asset"

\* --------------------------------------------------- the annotation modal
\* What parseInt(this.countInput.value, 10) gives: NaN or an integer.
CountValues ==
  {[nan |-> TRUE, n |-> 0]} \cup {[nan |-> FALSE, n |-> k] : k \in -1..MaxZoneCount}

\* What this.prefixInput.value and this.idsInput.value may hold.
PrefixValues == {<<" ">>, <<" ", "A", " ">>}
IdsValues ==
  {<<>>, <<",", " ", "\n">>, <<"A1", "\n", "A2", ",", "A3", ",">>, <<"B", ",", " ", "B">>}

\* Mutant: the parsed count is taken as it is, 0 for NaN.
CountOfUnclamped(v) == IF v.nan THEN 0 ELSE v.n

\* handleConfigChange, line 623: Math.max(1, parseInt(value, 10) || 1)
CountOf(v) ==
  LET parsed == IF v.nan \/ v.n = 0 THEN 1 ELSE v.n
  IN IF parsed > 1 THEN parsed ELSE 1

\* handleConfigChange, line 624: value?.trim() || "Z"
PrefixOf(v) == IF Trim(v) = <<>> THEN <<"Z">> ELSE Trim(v)

\* String.prototype.split(/[,\n]/): the pieces of s between the separators.
RECURSIVE SplitIds(_, _)
SplitIds(s, piece) ==
  IF s = <<>> THEN <<piece>>
  ELSE IF Head(s) \in {",", "\n"} THEN <<piece>> \o SplitIds(Tail(s), <<>>)
  ELSE SplitIds(Tail(s), Append(piece, Head(s)))

\* Mutant: the generated identifiers count from 0.
getZoneIdsFromZero(count, prefix, custom) ==
  LET pieces   == SplitIds(custom, <<>>)
      trimmed  == [i \in 1..Len(pieces) |-> Trim(pieces[i])]
      provided == SelectSeq(trimmed, LAMBDA item : item # <<>>)
  IN IF Len(provided) # 0 THEN provided
     ELSE [index \in 1..count |-> prefix \o <<ToString(index - 1)>>]

\* getZoneIds, lines 630-641
getZoneIds(count, prefix, custom) ==
  LET pieces   == SplitIds(custom, <<>>)
      trimmed  == [i \in 1..Len(pieces) |-> Trim(pieces[i])]
      provided == SelectSeq(trimmed, LAMBDA item : item # <<>>)
  IN IF Len(provided) # 0 THEN provided
     ELSE [index \in 1..count |-> prefix \o <<ToString(index)>>]

zoneIds == getZoneIds(zoneCount, zonePrefix, customIds)

\* this.imageEl.getBoundingClientRect(), and the clicks the image wrapper
\* can receive: positions inside that box (the wrapper is a block that holds
\* the image at 100% width and a marker layer without pointer events), here
\* on a diagonal that ends in the top right corner.
rect == [left |-> 2, top |-> 1, width |-> MaxSide, height |-> MaxSide]
Clicks ==
  {[clientX |-> rect.left + d, clientY |-> rect.top + rect.height - d] : d \in 1..MaxSide}

\* Mutant: the position of the box is not subtracted.
RelativeToViewport(client, origin, size) == [num |-> client, den |-> size]

\* handleMapClick, lines 679-680: (client - origin) / size, as a fraction.
Relative(client, origin, size) == [num |-> client - origin, den |-> size]

\* Mutant: a click after the last identifier is placed too.
ClickPlacesAlways(placed, ids) == Len(ids) # 0

\* handleMapClick, lines 668-676: the click places a point.
ClickPlaces(placed, ids) == Len(ids) # 0 /\ ~(Len(placed) >= Len(ids))

\* Mutant: the points are kept when they still fit the new identifiers.
PointsAfterConfigChangeKept(placed, ids) == IF Len(placed) <= Len(ids) THEN placed ELSE <<>>

\* handleConfigChange, line 626: this.resetMarkers()
PointsAfterConfigChange(placed, ids) == <<>>

\* Mutant: Clear also restores the default zone count.
ClearedDefaults(count, prefix, custom) ==
  [points |-> <<>>, zoneCount |-> DefaultZoneCount, zonePrefix |-> prefix, customIds |-> custom]

\* resetMarkers, lines 643-649: what Clear leaves of the points and the configuration.
Cleared(count, prefix, custom) ==
  [points |-> <<>>, zoneCount |-> count, zonePrefix |-> prefix, customIds |-> custom]

\* Mutant: no guard.
SaveRefusesNever(placed, ids) == FALSE

\* saveLabeledMap, line 705: the call returns after its Notice.
SaveRefuses(placed, ids) == Len(placed) # Len(ids)

\* updateStatus, line 660: this.saveButton.disabled
SaveDisabled == Len(points) # Len(zoneIds) \/ Len(zoneIds) = 0

\* Mutant: the catch closes the modal.
SaveCatchCloses == [notice |-> "failed_to_create_gm_zones_map", closes |-> TRUE]

\* saveLabeledMap, lines 730-733: the catch
SaveCatch == [notice |-> "failed_to_create_gm_zones_map", closes |-> FALSE]

\* Mutant: the file is always created.
WriteCallCreates(exists) == "create"

\* saveLabeledMap, lines 719-723: modifyBinary on an existing file, else createBinary
WriteCall(exists) == IF exists THEN "modify" ELSE "create"

\* Mutant: the path of the map itself is stored.
StoredPathOfMap(file, path) ==
  (IF file.parent # <<>> THEN file.parent \o <<"/">> ELSE <<>>) \o file.basename \o <<".png">>

\* saveLabeledMap, line 725: the value given to settings.lastGmZonesPath
StoredPath(file, path) == path

\* saveLabeledMap, lines 711-713
outputName(file) == file.basename \o <<"_gm_zones", ".png">>
outputPath(file) ==
  IF file.parent # <<>> THEN file.parent \o <<"/">> \o outputName(file) ELSE outputName(file)

\* A labeled map written in an earlier session.
OlderZonesFile == <<[by |-> "earlier", markers |-> DefaultZoneCount]>>

\* annotateGmZones, lines 292-293: the modal is built and opened on a map; the
\* vault may hold a labeled map of it already.
InitZones ==
  /\ InitOn({<<>>})
  /\ apiKey
  /\ text = <<>>
  /\ mapFile \in MapFiles
  /\ modalOpen = TRUE
  /\ zonesFile \in {<<>>, OlderZonesFile}

\* lines 622-628: one of the three inputs fired, the configuration is read
handleConfigChange ==
  /\ modalOpen
  /\ \E c \in CountValues, pv \in PrefixValues, iv \in IdsValues :
       /\ zoneCount' = CountOf(c)
       /\ zonePrefix' = PrefixOf(pv)
       /\ customIds' = iv
       /\ points' = PointsAfterConfigChange(points, getZoneIds(CountOf(c), PrefixOf(pv), iv))
  /\ lastEvent' = [name |-> "handleConfigChange", before |-> Len(points), notice |-> "none"]
  /\ UNCHANGED <<note, prepVars, appended, otherVars, mapFile, modalOpen, saves, zonesFile, fileWrites,
                 lastGmZonesPath, persistedPath>>

\* lines 643-649: the Clear button
resetMarkers ==
  /\ modalOpen
  /\ LET c == Cleared(zoneCount, zonePrefix, customIds)
     IN /\ points' = c.points
        /\ zoneCount' = c.zoneCount
        /\ zonePrefix' = c.zonePrefix
        /\ customIds' = c.customIds
  /\ lastEvent' = [name |-> "resetMarkers", before |-> Len(points), notice |-> "none"]
  /\ UNCHANGED <<note, prepVars, appended, otherVars, mapFile, modalOpen, saves, zonesFile, fileWrites,
                 lastGmZonesPath, persistedPath>>

\* zoneIds[nextIndex] of line 682 (undefined past the end), with the first
\* identifier taken every time
ZoneIdAtFirst(ids, nextIndex) == IF Len(ids) > 0 THEN ids[1] ELSE <<"undefined">>

\* zoneIds[nextIndex] of line 682 (undefined past the end)
ZoneIdAt(ids, nextIndex) ==
  IF nextIndex + 1 <= Len(ids) THEN ids[nextIndex + 1] ELSE <<"undefined">>

\* lines 664-685: a click on the map
handleMapClick ==
  /\ modalOpen
  /\ \E event \in Clicks :
       LET nextIndex == Len(points)
       IN IF ClickPlaces(points, zoneIds)
          THEN /\ points' = Append(points,
                     [id |-> ZoneIdAt(zoneIds, nextIndex),
                      x  |-> Relative(event.clientX, rect.left, rect.width),
                      y  |-> Relative(event.clientY, rect.top, rect.height)])
               /\ lastEvent' = [name |-> "handleMapClick", before |-> nextIndex,
                                notice |-> "none"]
          ELSE /\ lastEvent' = [name |-> "handleMapClick", before |-> nextIndex,
                                notice |-> IF Len(zoneIds) = 0 THEN "add_at_least_one_zone"
                                           ELSE "all_zones_placed"]
               /\ UNCHANGED points
  /\ UNCHANGED <<note, prepVars, appended, otherVars, mapFile, zoneCount, zonePrefix, customIds,
                 modalOpen, saves, zonesFile, fileWrites, lastGmZonesPath, persistedPath>>

\* lines 703-711: saveLabeledMap is called; past the guard it awaits the image
saveLabeledMap ==
  /\ modalOpen
  /\ IF SaveRefuses(points, zoneIds)
     THEN /\ lastEvent' = [name |-> "saveLabeledMap", before |-> Len(points),
                           notice |-> "place_all_zones"]
          /\ UNCHANGED saves
     ELSE /\ Len(saves) < MaxSaves
          /\ saves' = Append(saves, [phase |-> "render", call |-> "none", markers |-> 0])
          /\ lastEvent' = [name |-> "saveLabeledMap", before |-> Len(points),
                           notice |-> "none"]
  /\ UNCHANGED <<note, prepVars, appended, otherVars, mapFile, zoneCount, zonePrefix, customIds, points,
                 modalOpen, zonesFile, fileWrites, lastGmZonesPath, persistedPath>>

\* Mutant: every zone identifier is drawn, placed or not.
DrawnMarkersOfIds(placed, ids) == Len(ids)

\* renderLabeledImage, lines 738-762: after the image has loaded, one marker is
\* drawn for each of this.points as they are then.
DrawnMarkers(placed, ids) == Len(placed)

\* Mutant: the path is stored whether the write succeeded or not.
PathAfterWriteAlways(ok, path, out) == out

\* saveLabeledMap, lines 719-725: the assignment follows the awaited write,
\* which a rejected write skips.
PathAfterWrite(ok, path, out) == IF ok THEN out ELSE path

\* The catch of saveLabeledMap takes the error of call i.
SaveFailed(i) ==
  /\ saves' = [saves EXCEPT ![i] = [phase |-> "failed", call |-> "none", markers |-> 0]]
  /\ modalOpen' = (modalOpen /\ ~SaveCatch.closes)
  /\ lastEvent' = [name |-> "save_" \o saves[i].phase \o "_failed", before |-> Len(points),
                   notice |-> SaveCatch.notice]

\* lines 711, 736-766: the image loaded and the canvas was encoded, or one of
\* the two failed; then lines 712-723, the write is issued
RenderCompletes ==
  /\ \E i \in 1..Len(saves) :
       /\ saves[i].phase = "render"
       /\ \/ /\ saves' = [saves EXCEPT ![i] =
                    [phase |-> "write", call |-> WriteCall(zonesFile # <<>>),
                     markers |-> DrawnMarkers(points, zoneIds)]]
             /\ lastEvent' = [name |-> "save_rendered", before |-> Len(points),
                              notice |-> "none"]
             /\ UNCHANGED modalOpen
          \/ SaveFailed(i)
  /\ UNCHANGED <<note, prepVars, appended, otherVars, mapFile, zoneCount, zonePrefix, customIds, points,
                 zonesFile, fileWrites, lastGmZonesPath, persistedPath>>

\* lines 719-726: the vault wrote the file (createBinary throws when the path
\* is taken), or the write failed; then the path is stored and saveSettings called
WriteCompletes ==
  /\ \E i \in 1..Len(saves) :
       /\ saves[i].phase = "write"
       /\ \/ /\ ~(saves[i].call = "create" /\ zonesFile # <<>>)
             /\ zonesFile' = <<[by |-> "modal", markers |-> saves[i].markers]>>
             /\ fileWrites' = Append(fileWrites, [call |-> saves[i].call,
                                                  existed |-> zonesFile # <<>>, ok |-> TRUE])
             /\ lastGmZonesPath' =
                  PathAfterWrite(TRUE, lastGmZonesPath, StoredPath(mapFile, outputPath(mapFile)))
             /\ saves' = [saves EXCEPT ![i] =
                            [phase |-> "persist", call |-> "none", markers |-> 0]]
             /\ lastEvent' = [name |-> "save_written", before |-> Len(points),
                              notice |-> "none"]
             /\ UNCHANGED modalOpen
          \/ /\ SaveFailed(i)
             /\ fileWrites' = Append(fileWrites, [call |-> saves[i].call,
                                                  existed |-> zonesFile # <<>>, ok |-> FALSE])
             /\ lastGmZonesPath' =
                  PathAfterWrite(FALSE, lastGmZonesPath, StoredPath(mapFile, outputPath(mapFile)))
             /\ UNCHANGED zonesFile
  /\ UNCHANGED <<note, prepVars, appended, otherVars, mapFile, zoneCount, zonePrefix, customIds, points,
                 persistedPath>>

\* lines 726-729: saveData wrote the settings, the Notice is shown and the
\* modal closed; or saveData failed
PersistCompletes ==
  /\ \E i \in 1..Len(saves) :
       /\ saves[i].phase = "persist"
       /\ \/ /\ persistedPath' = lastGmZonesPath
             /\ saves' = [saves EXCEPT ![i].phase = "done"]
             /\ lastEvent' = [name |-> "save_done", before |-> Len(points),
                              notice |-> "saved_gm_zones_map"]
             /\ modalOpen' = FALSE
          \/ /\ SaveFailed(i)
             /\ UNCHANGED persistedPath
  /\ UNCHANGED <<note, prepVars, appended, otherVars, mapFile, zoneCount, zonePrefix, customIds, points,
                 zonesFile, fileWrites, lastGmZonesPath>>

\* The modal while zones are configured and placed (the Save calls that get
\* past the guard stay at their first await).
NextZones ==
  \/ handleConfigChange
  \/ resetMarkers
  \/ handleMapClick
  \/ saveLabeledMap

SpecZones == InitZones /\ [][NextZones]_vars

\* The modal with its configuration left as it is: placing, clearing, saving.
NextSave ==
  \/ resetMarkers
  \/ handleMapClick
  \/ saveLabeledMap
  \/ RenderCompletes
  \/ WriteCompletes
  \/ PersistCompletes

\* The modal after the user typed two custom ids into the ids field.
InitSave ==
  /\ InitWith({<<>>}, <<"B", ",", " ", "B">>)
  /\ apiKey
  /\ text = <<>>
  /\ mapFile \in MapFiles
  /\ modalOpen = TRUE
  /\ zonesFile \in {<<>>, OlderZonesFile}

SpecSave == InitSave /\ [][NextSave]_vars

\* The states of the annotation session.
AllPlaced == Len(points) = Len(zoneIds)
PointIds == [k \in 1..Len(points) |-> points[k].id]

\* C21: with zone identifiers [A1, A2, A3] successive clicks record points with
\* ids A1, A2, A3 in click order; the k-th click records the k-th identifier,
\* and a click after all identifiers are placed is a no-op that leaves the
\* point list unchanged.
A123 == << <<"A1">>, <<"A2">>, <<"A3">> >>

C21_ClickOrder ==
  /\ [](/\ zoneIds = A123 => PointIds = SubSeq(A123, 1, Len(points))
        /\ (zoneCount = 2 /\ zonePrefix = <<"A">> /\ customIds = <<>>) =>
             PointIds = SubSeq(<< <<"A", "1">>, <<"A", "2">> >>, 1, Len(points)))
  /\ [][handleMapClick =>
          IF Len(points) < Len(zoneIds)
          THEN /\ Len(points') = Len(points) + 1
               /\ SubSeq(points', 1, Len(points)) = points
               /\ points'[Len(points')].id = zoneIds[Len(points')]
          ELSE points' = points /\ lastEvent'.notice = "all_zones_placed"]_vars

C21_Witness ==
  /\ zoneIds = A123
  /\ PointIds = A123
  /\ lastEvent = [name |-> "handleMapClick", before |-> 3, notice |-> "all_zones_placed"]

\* C22: a change of the zone count, the prefix or the custom ids in any state
\* of the modal resets the placed points to zero, whatever the new
\* configuration and however many points were placed.
C22_ConfigChangeResets ==
  /\ [](lastEvent.name = "handleConfigChange" => points = <<>>)
  /\ [][handleConfigChange => points' = <<>>]_vars

C22_Witness ==
  /\ lastEvent = [name |-> "handleConfigChange", before |-> 2, notice |-> "none"]
  /\ Len(zoneIds) = 3
  /\ points = <<>>

\* C23: a saveLabeledMap call made while the number of placed points differs
\* from the number of zone identifiers writes no file, does not change the
\* settings and leaves the modal open; only calls made with all points placed
\* get to write.
C23_SaveOnlyAllPlaced ==
  /\ [](/\ (lastEvent.name = "saveLabeledMap" /\ lastEvent.before # Len(zoneIds)) =>
             lastEvent.notice = "place_all_zones" /\ modalOpen
        /\ Len(fileWrites) <= Len(saves))
  /\ [][(saveLabeledMap /\ Len(points) # Len(zoneIds)) =>
          UNCHANGED <<saves, zonesFile, fileWrites, lastGmZonesPath, persistedPath, modalOpen,
                      points>>]_vars

C23_Witness ==
  /\ lastEvent = [name |-> "saveLabeledMap", before |-> 1, notice |-> "place_all_zones"]
  /\ Len(zoneIds) = 2
  /\ saves = <<>>

\* C24: if rendering, encoding or writing fails during saveLabeledMap, an error
\* is reported, the modal is not closed, and the placed points and the
\* configuration are unchanged: a session that was AllPlaced still is, and
\* Save can be called again.
FailsAt(phases) ==
  \E i \in 1..Len(saves) : saves[i].phase \in phases /\ saves'[i].phase = "failed"

C24_FailureKeepsSession ==
  [][FailsAt({"render", "write"}) =>
       /\ lastEvent'.notice = "failed_to_create_gm_zones_map"
       /\ UNCHANGED <<modalOpen, points, zoneCount, zonePrefix, customIds, zonesFile,
                      lastGmZonesPath, persistedPath>>
       /\ AllPlaced =>
            ~SaveRefuses(points', getZoneIds(zoneCount', zonePrefix', customIds'))]_vars

C24_Witness ==
  /\ Len(saves) = 2
  /\ saves[1].phase = "failed"
  /\ saves[2].phase = "render"
  /\ lastEvent.name = "saveLabeledMap"
  /\ lastGmZonesPath = <<>>
  /\ modalOpen

\* C25: when saveLabeledMap completes without error, settings.lastGmZonesPath
\* is the output path (<map folder>/<map basename>_gm_zones.png), the
\* settings have been persisted with it, the file is written and the modal
\* is closed.
ExpectedOutputPath ==
  (IF mapFile.parent = <<>> THEN <<>> ELSE mapFile.parent \o <<"/">>)
    \o mapFile.basename \o <<"_gm_zones", ".png">>

C25_SavedState ==
  (\E i \in 1..Len(saves) : saves[i].phase = "done") =>
    /\ lastGmZonesPath = ExpectedOutputPath
    /\ persistedPath = ExpectedOutputPath
    /\ zonesFile # <<>>
    /\ ~modalOpen

C25_Witness ==
  /\ Len(saves) = 1
  /\ saves[1].phase = "done"
  /\ mapFile.parent = <<"maps">>
  /\ lastEvent.notice = "saved_gm_zones_map"

\* C26: Clear (resetMarkers) from any state leaves zero placed points and does
\* not change zoneCount, zonePrefix or customIds.
C26_ClearKeepsConfiguration ==
  /\ [](lastEvent.name = "resetMarkers" => points = <<>>)
  /\ [][resetMarkers => points' = <<>> /\ UNCHANGED <<zoneCount, zonePrefix, customIds>>]_vars

C26_Witness ==
  /\ lastEvent = [name |-> "resetMarkers", before |-> 2, notice |-> "none"]
  /\ points = <<>>
  /\ zoneCount = 2
  /\ zonePrefix = <<"A">>
  /\ customIds = <<"B", ",", " ", "B">>

\* C27: every ZonePoint recorded by handleMapClick has x and y within [0,1].
InUnitInterval(q) == q.den > 0 /\ 0 <= q.num /\ q.num <= q.den

C28_PointsAligned ==
  /\ [](/\ Len(points) <= Len(zoneIds)
        /\ \A k \in 1..Len(points) : points[k].id = zoneIds[k])
  /\ [][\/ points' = <<>>
        \/ points' = points
        \/ Len(points') = Len(points) + 1 /\ SubSeq(points', 1, Len(points)) = points]_vars

C28_Witness ==
  /\ Len(points) = 2
  /\ Len(zoneIds) = 3
  /\ customIds # <<>>
  /\ lastEvent.name = "handleMapClick"

\* C29: Save never duplicates its output: whenever a file exists at the output
\* path at the time Save writes, it is overwritten in place (modifyBinary), and
\* createBinary is issued only for a path where no file exists, in every
\* interleaving, two Save actions on the same modal included.
C29_AsClaimed ==
  \A k \in 1..Len(fileWrites) : fileWrites[k].existed => fileWrites[k].call = "modify"

\* --------------------------------------------------- two commands on one note
\* scanFolderAndAppend's jsonBlock: a blank line and the fenced summary, where
\* "<summary>" stands for JSON.stringify(summary, null, 2).
jsonBlock == <<"\n", "\n", FENCE, "json", "\n", "<summary>", "\n", FENCE>>

\* scanFolderAndAppend on the note that updateNoteWithPrep works on: the
\* summary is built from the folder and vault.append adds the block at the end
\* of the note as it is at that moment, or fails and is caught.
ScanFolderAndAppend ==
  /\ appended < MaxAppends
  /\ appended' = appended + 1
  /\ \/ note' = note \o jsonBlock
     \/ note' = note
  /\ UNCHANGED <<prepVars, zoneVars, otherVars>>

NextShared ==
  \/ CallUpdateNoteWithPrep
  \/ UpdateNoteRead
  \/ UpdateNoteModify
  \/ ScanFolderAndAppend

SpecShared == InitNote /\ [][NextShared]_vars

\* The fenced summary without the blank line in front of it.
fencedSummary == SubSeq(jsonBlock, 3, Len(jsonBlock))

\* C30: updateNoteWithPrep loses no content outside the marker pair when
\* scanFolderAndAppend appends between its read and its modify: every fenced
\* summary that is in the note when the modify happens (it is outside the
\* markers, whether the note has a pair or not) is in the note afterwards.
C30_AsClaimed ==
  pc = "patched" => Count(note, fencedSummary) >= Count(noteBefore, fencedSummary)

\* --------------------------------------------------- the zone identifiers
Separators == {",", "\n"}
\* The custom id text without its separators and white space.
Letters(s) == SelectSeq(s, LAMBDA c : c \notin Separators /\ ~IsWhitespace(c))
RECURSIVE Flatten(_)
Flatten(ss) == IF ss = <<>> THEN <<>> ELSE Head(ss) \o Flatten(Tail(ss))

\* The custom id text names at least one identifier.
CustomGiven == Letters(customIds) # <<>>

\* C31: getZoneIds returns the custom id text split on commas and newlines,
\* trimmed and with the empty entries removed, whenever that yields at least
\* one entry (here: the entries are not empty, hold no separator and no white
\* space, and together are the text without separators and white space, in
\* order, as many as there are non-blank pieces); otherwise it returns
\* exactly zoneCount identifiers prefix+1, ..., prefix+zoneCount.
C31_ZoneIds ==
  /\ CustomGiven =>
       /\ \A k \in 1..Len(zoneIds) : zoneIds[k] # <<>> /\ Letters(zoneIds[k]) = zoneIds[k]
       /\ Flatten(zoneIds) = Letters(customIds)
       /\ customIds = <<"A1", "\n", "A2", ",", "A3", ",">> => zoneIds = A123
       /\ customIds = <<"B", ",", " ", "B">> => zoneIds = << <<"B">>, <<"B">> >>
  /\ ~CustomGiven =>
       /\ Len(zoneIds) = zoneCount
       /\ \A k \in 1..zoneCount : zoneIds[k] = zonePrefix \o <<ToString(k)>>

C31_Witness ==
  /\ customIds = <<",", " ", "\n">>
  /\ zoneCount = 2
  /\ zoneIds = << <<"A", "1">>, <<"A", "2">> >>
  /\ lastEvent.name = "handleConfigChange"

\* C39: in every reachable state of the annotation modal getZoneIds returns a
\* non-empty list (zoneCount is at least 1, and a custom list is used only
\* when it has an entry), so handleMapClick never takes its branch for an
\* empty list of identifiers.
C39_ZoneIdsNonEmpty ==
  /\ zoneCount >= 1
  /\ Len(zoneIds) >= 1
  /\ lastEvent.notice # "add_at_least_one_zone"

C39_Witness ==
  /\ customIds = <<",", " ", "\n">>
  /\ zoneCount = 1
  /\ Len(zoneIds) = 1
  /\ lastEvent = [name |-> "handleMapClick", before |-> 0, notice |-> "none"]
  /\ Len(points) = 1

\* --------------------------------------------------- what a Save writes
\* C36: every image file written by saveLabeledMap carries exactly one drawn
\* marker per zone identifier (as many markers as identifiers, at least
\* one), in every interleaving of UI events, a Clear or a click arriving
\* while a started Save awaits the image included.
C36_AsClaimed ==
  (zonesFile # <<>> /\ zonesFile[1].by = "modal") =>
    zonesFile[1].markers = Len(zoneIds) /\ zonesFile[1].markers >= 1

\* C38: settings.lastGmZonesPath is changed only by a Save whose image write
\* succeeded: a Save refused for missing points, or failing during render,
\* encode or write, leaves it as it was.
C38_PathOnlyAfterWrite ==
  /\ [](lastGmZonesPath # <<>> => \E k \in 1..Len(fileWrites) : fileWrites[k].ok)
  /\ [][lastGmZonesPath' # lastGmZonesPath =>
          /\ Len(fileWrites') = Len(fileWrites) + 1
          /\ fileWrites'[Len(fileWrites')].ok
          /\ \E i \in 1..Len(saves) : saves[i].phase = "write" /\ saves'[i].phase = "persist"]_vars
  /\ [][(\/ saveLabeledMap /\ SaveRefuses(points, zoneIds)
         \/ FailsAt({"render", "write"})) => UNCHANGED lastGmZonesPath]_vars

C38_Witness ==
  /\ Len(saves) = 2
  /\ saves[1].phase = "failed"
  /\ Len(fileWrites) = 2
  /\ ~fileWrites[1].ok
  /\ fileWrites[2].ok
  /\ lastGmZonesPath = ExpectedOutputPath

\* --------------------------------------------------- pipeline: failures and bounds
\* The last createChatCompletion call failed: no key, a network error, a body
\* that is no JSON, or a status outside [200,300).
CallFailed ==
  \/ lastCall.kind \in {"not_sent", "throws", "bad_body"}
  \/ lastCall.kind = "response" /\ ~lastCall.in2xx

C33_NoteUntouchedOnFailure ==
  /\ []((pc = "done" /\ outcome # "inserted") => note = noteAtStart)
  /\ []((pc \notin {"idle", "load"} /\ outcome # "none" /\ assets = NoAssets) =>
          note = noteAtStart)
  /\ [][note' # note => (pc = "patch_modify" /\ pc' = "patched")]_vars

C33_Witness ==
  /\ pc = "done"
  /\ outcome = "failed"
  /\ Times("synthesizer_call") = 1
  /\ Times("extractor_returned") = 1
  /\ note = noteAtStart
  /\ note # <<>>

\* C34: one generatePrepTwoStep invocation issues at most three
\* chat-completion requests (at most two of the extractor and at most one of
\* the synthesizer) and modifies the note at most once, whatever the client
\* answers.
C34_RequestBound ==
  /\ Times("extractor_call") <= 2
  /\ Times("synthesizer_call") <= 1
  /\ Times("http_post") <= 3
  /\ Times("note_modify") + Times("note_modify_failed") <= 1

C34_Witness ==
  /\ Times("extractor_call") = 2
  /\ Times("synthesizer_call") = 1
  /\ Times("http_post") = 3
  /\ Times("note_modify") = 1
  /\ pc = "patched"

\* One invocation on an empty note or a note of one letter, every await of
\* which returns or fails in the end.
InitLive == InitOn({<<>>, <<"a">>}) /\ text = <<>> /\ NoModal

LiveSpec == InitLive /\ [][Next]_vars /\ WF_vars(Next)

\* The invocation is over: the note is patched and the success Notice shown,
\* or an early-exit or failure Notice was shown.
Terminal ==
  /\ pc = "done"
  /\ notices # <<>>
  /\ \/ outcome = "inserted" /\ notices[Len(notices)] = "prep_inserted"
     \/ outcome = "no_note" /\ notices[Len(notices)] = "open_a_note"
     \/ outcome = "no_folder" /\ notices[Len(notices)] = "no_folder"
     \/ outcome = "no_assets" /\ notices[Len(notices)] = "no_maps_or_pdfs"
     \/ outcome = "failed" /\ notices[Len(notices)] = "prep_generation_failed"

\* C35: every generatePrepTwoStep invocation eventually reaches a terminal
\* outcome, provided each external call eventually returns or fails.
C35_Terminates == <>[]Terminal

C35_Witness ==
  /\ Terminal
  /\ outcome = "inserted"
  /\ noteAtStart = <<"a">>
  /\ Times("extractor_call") = 2
  /\ Times("read_asset") >= 1

\* --------------------------------------------------- two invocations on one note
\* The markdown the synthesizer gave the second invocation.
SecondMarkdowns == {<<"b">>, <<END_SYM>>}

\* line 503 of a second generatePrepTwoStep invocation on the same note, begun
\* before the first has ended: its synthesizer returned, updateNoteWithPrep is called
SecondCallUpdateNoteWithPrep ==
  /\ pc2 = "idle"
  /\ markdown2' \in SecondMarkdowns
  /\ pc2' = "patch_read"
  /\ UNCHANGED <<note, prepVars, appended, zoneVars, current2>>

\* line 456 of the second invocation
SecondUpdateNoteRead ==
  /\ pc2 = "patch_read"
  /\ current2' = note
  /\ pc2' = "patch_modify"
  /\ UNCHANGED <<note, prepVars, appended, zoneVars, markdown2>>

\* lines 458-470 of the second invocation
SecondUpdateNoteModify ==
  /\ pc2 = "patch_modify"
  /\ note' = NextContent(current2, markdown2)
  /\ pc2' = "patched"
  /\ UNCHANGED <<prepVars, appended, zoneVars, current2, markdown2>>

\* A note that holds no marker.
PlainNotes == SeqsUpTo({"a", "\n"}, MaxPlainLen)

InitTwo == InitOn(PlainNotes \cup {<<START_SYM>>}) /\ apiKey /\ text = <<>> /\ NoModal

NextTwo ==
  \/ CallUpdateNoteWithPrep
  \/ UpdateNoteRead
  \/ UpdateNoteModify
  \/ SecondCallUpdateNoteWithPrep
  \/ SecondUpdateNoteRead
  \/ SecondUpdateNoteModify

SpecTwo == InitTwo /\ [][NextTwo]_vars

\* Both invocations have patched a note that held no marker, with markdown
\* that holds no marker.
BothPatched ==
  /\ pc = "patched"
  /\ pc2 = "patched"
  /\ ~HasMarker(noteAtStart)
  /\ mdsClean
  /\ ~HasMarker(markdown2)

\* C37: when two generatePrepTwoStep invocations on the same note (at first
\* without markers, their markdown free of marker strings) overlap, then for
\* every interleaving of their note reads and note modifies the final note
\* holds exactly one start marker and exactly one end marker, in that order.
C37_OnePairAfterOverlap ==
  BothPatched =>
    /\ Count(note, startMarker) = 1
    /\ Count(note, endMarker) = 1
    /\ IndexOf(note, startMarker) < IndexOf(note, endMarker)

C37_Witness ==
  /\ BothPatched
  /\ updates = 1
  /\ noteAtStart # <<>>
  /\ current = noteAtStart
  /\ current2 = noteAtStart
  /\ Contains(note, <<"b">>)

====
